---- MODULE Spec2Model ----
(***************************************************************************)
(* The planet "TRIP": the AI of src/src/ai.rs driving a PlanetState of     *)
(* type A (src/src/lib.rs).  One action per handler of `impl PlanetAI for  *)
(* AI`; the scheduler delivers one event at a time, in any order.          *)
(***************************************************************************)
EXTENDS Integers, FiniteSets, Sequences, TLC

VARIABLES
    id,        \* PlanetState::id(), the entity identity given to Trip::new
    running,   \* AI.running, the lifecycle flag
    cells,     \* PlanetState energy cells: cells[i] = TRUE iff cell i is charged
    rocket,    \* PlanetState rocket slot: None or Some(rocket)
    ev,        \* the event handled by the last step
    ret,       \* the value the handler of the last step returned
    out,       \* the message the planet sent to the orchestrator in the last step
    log,       \* the outcome the handler of the last step logged
    pre,       \* running, cells and rocket as they were before the last step
    hist,      \* how the events since construction went: only a start, then
               \* only sunrays (counted), then one asteroid; or otherwise
    orch_q,    \* the messages queued on the orch_to_planet channel
    orch_tx,   \* TRUE while a sender of the orch_to_planet channel is alive
    expl_q,    \* the messages queued on the expl_to_planet channel
    expl_tx,   \* TRUE while a sender of the expl_to_planet channel is alive
    trip,      \* what Trip::new returned, NotCalled before the call
    chan_pre,  \* the two channels as they were when Trip::new was called
    sent,      \* the signals the sender threads have sent, in the order the
               \* channel took them
    applied,   \* the signals the planet has handled, in the order it did
    conv_in,   \* a number of charged cells handed to the conversion to the field
    conv_out,  \* what the conversion made of it, None before it ran
    tally      \* how many sunrays charged a cell, rockets were built, oxygen
               \* units were made and rockets were launched since construction

chanvars == <<orch_q, orch_tx, expl_q, expl_tx, trip, chan_pre>>
planetvars == <<id, running, cells, rocket, ev, ret, out, log, pre, hist>>
auxvars == <<sent, applied, conv_in, conv_out, tally>>
vars == <<id, running, cells, rocket, ev, ret, out, log, pre, hist,
          orch_q, orch_tx, expl_q, expl_tx, trip, chan_pre,
          sent, applied, conv_in, conv_out, tally>>

-----------------------------------------------------------------------------
(* Bounds and program constants *)

\* number of energy cells of a planet of PlanetType::A
N == 5
\* planet identities given to Trip::new are drawn from 0..MaxPlanetId
MaxPlanetId == 1
\* explorer identities carried by queries are drawn from 0..MaxExplorerId
MaxExplorerId == 0
\* the resource values carried by a combine request are drawn from 1..MaxToken
MaxToken == 2
\* sunrays in a row counted by hist, as many as test_planet_multiple_sunray_ack sends
MaxPulses == 20
\* at most MaxQueue messages are queued on a channel before Trip::new
MaxQueue == 2
\* the largest count the response field available_cells is modelled to hold:
\* the field is a u32, whose maximum 4294967295 is above the integers of the
\* model checker, so the model's field ends at the checker's largest integer
FieldMax == 2147483647
\* each of the two sender threads sends up to MaxSignals signals
MaxSignals == 3
\* the conversion alone is run on a field scaled down to hold 0..NarrowMax
NarrowMax == 7
\* and on numbers of charged cells drawn from 0..MaxCount
MaxCount == 40
\* the handlers' outcomes are tallied until MaxTally of them were counted
MaxTally == 12

Index == 1..N

-----------------------------------------------------------------------------
(* Option<T> and () *)

None == [some |-> FALSE]
Some(v) == [some |-> TRUE, val |-> v]
Unit == [kind |-> "unit"]

-----------------------------------------------------------------------------
(* The collaborators of common_game the AI calls *)

\* EnergyCell::is_charged
is_charged(cell) == cell

\* the scan run from the last cell down (rposition)
position_last(cs, want) ==
    IF \E i \in Index : is_charged(cs[i]) = want
    THEN Some(CHOOSE i \in Index : /\ is_charged(cs[i]) = want
                                   /\ \A j \in Index : j > i => is_charged(cs[j]) # want)
    ELSE None

\* Iterator::position over state.cells_iter(): the lowest index whose cell
\* is charged (want = TRUE) or not charged (want = FALSE), None when no cell is
position(cs, want) ==
    IF \E i \in Index : is_charged(cs[i]) = want
    THEN Some(CHOOSE i \in Index : /\ is_charged(cs[i]) = want
                                   /\ \A j \in Index : j < i => is_charged(cs[j]) # want)
    ELSE None

\* EnergyCell::charge on state.cell_mut(index)
charge(cs, index) == [cs EXCEPT ![index] = TRUE]

\* PlanetState::has_rocket
has_rocket(rk) == rk.some

\* PlanetState::build_rocket(index): fails when a rocket is already held or
\* the cell is not charged, else consumes the cell's charge into a rocket
build_rocket(cs, rk, index) ==
    IF has_rocket(rk) THEN [ok |-> FALSE, cells |-> cs, rocket |-> rk]
    ELSE IF ~is_charged(cs[index]) THEN [ok |-> FALSE, cells |-> cs, rocket |-> rk]
    ELSE [ok |-> TRUE,
          cells |-> [cs EXCEPT ![index] = FALSE],
          rocket |-> Some([built_from |-> index])]

\* PlanetState::take_rocket: moves the rocket out of the slot
take_rocket(rk) == [ret |-> rk, rocket |-> None]

\* Generator::make_oxygen(cell): consumes the cell's charge, fails on an
\* uncharged cell (Oxygen is in the planet's generation rules)
make_oxygen(cs, index) ==
    IF is_charged(cs[index])
    THEN [ok |-> TRUE, cells |-> [cs EXCEPT ![index] = FALSE]]
    ELSE [ok |-> FALSE, cells |-> cs]

\* the count taken without the is_charged filter
charged_count_all(cs) == Cardinality({i \in Index : TRUE})

charged_count(cs) == Cardinality({i \in Index : is_charged(cs[i])})

\* PlanetState::to_dummy
to_dummy(cs, rk) ==
    [kind |-> "DummyPlanetState",
     energy_cells |-> cs,
     charged_cells_count |-> charged_count(cs),
     has_rocket |-> has_rocket(rk)]

\* a planet built without generation rules
gen_rules_none == {}

\* the generation rules and combination rules Trip::new gives the planet
gen_rules == {"Oxygen"}
comb_rules == {}

-----------------------------------------------------------------------------
(* The messages *)

BasicResourceType == {"Oxygen", "Hydrogen", "Carbon", "Silicon"}
ComplexResourceRequestKind == {"Water", "Diamond", "Life", "Robot", "Dolphin", "AIPartner"}
ExplorerId == 0..MaxExplorerId
Token == 1..MaxToken

ComplexResourceRequest == [kind : ComplexResourceRequestKind, a : Token, b : Token]

ExplorerToPlanet ==
    [kind : {"SupportedResourceRequest", "SupportedCombinationRequest",
             "AvailableEnergyCellRequest"}, explorer_id : ExplorerId]
    \cup [kind : {"GenerateResourceRequest"}, explorer_id : ExplorerId,
          resource : BasicResourceType]
    \cup [kind : {"CombineResourceRequest"}, explorer_id : ExplorerId,
          msg : ComplexResourceRequest]

BasicResources(type, v) == [class |-> "BasicResources", type |-> type, val |-> v]
ComplexResources(type, v) == [class |-> "ComplexResources", type |-> type, val |-> v]

-----------------------------------------------------------------------------
(* struct AI and its handlers *)

\* what a handler leaves behind: the flag, the planet state and its return value
Result(run, cs, rk, r) ==
    [running |-> run, cells |-> cs, rocket |-> rk, ret |-> r, log |-> "none"]

\* the same result with the outcome the handler logs on that branch
Logged(r, tag) == [r EXCEPT !.log = tag]

\* AI::new
AI_new == FALSE

\* AI::is_running
is_running(run) == IF ~run THEN FALSE ELSE TRUE

\* a decomposition that takes every request for a water request
get_generic_resources_water(msg) ==
    <<BasicResources("Hydrogen", msg.a), BasicResources("Oxygen", msg.b)>>

\* AI::get_generic_resources
get_generic_resources(msg) ==
    CASE msg.kind = "Water" ->
            <<BasicResources("Hydrogen", msg.a), BasicResources("Oxygen", msg.b)>>
      [] msg.kind = "Diamond" ->
            <<BasicResources("Carbon", msg.a), BasicResources("Carbon", msg.b)>>
      [] msg.kind = "Life" ->
            <<ComplexResources("Water", msg.a), BasicResources("Carbon", msg.b)>>
      [] msg.kind = "Robot" ->
            <<BasicResources("Silicon", msg.a), ComplexResources("Life", msg.b)>>
      [] msg.kind = "Dolphin" ->
            <<ComplexResources("Water", msg.a), ComplexResources("Life", msg.b)>>
      [] msg.kind = "AIPartner" ->
            <<ComplexResources("Robot", msg.a), ComplexResources("Diamond", msg.b)>>

\* the charging logic scanning from the last cell down
AI_handle_sunray_last(cs, rk) ==
    IF \E i \in Index : ~is_charged(cs[i])
    THEN LET index == CHOOSE i \in Index :
                          /\ ~is_charged(cs[i])
                          /\ \A j \in Index : j > i => is_charged(cs[j])
             charged == charge(cs, index)
             built == build_rocket(charged, rk, index)
         IN  [cells |-> built.cells, rocket |-> built.rocket,
              log |-> IF built.ok THEN "rocket_built" ELSE "rocket_build_failed"]
    ELSE [cells |-> cs, rocket |-> rk, log |-> "no_uncharged_cells"]

\* the charging logic building a rocket from the first charged cell when the
\* reserve is saturated
AI_handle_sunray_eager(cs, rk) ==
    LET index == position(cs, FALSE) IN
    IF index.some
    THEN LET charged == charge(cs, index.val)
             built == build_rocket(charged, rk, index.val)
         IN  [cells |-> built.cells, rocket |-> built.rocket,
              log |-> IF built.ok THEN "rocket_built" ELSE "rocket_build_failed"]
    ELSE LET built == build_rocket(cs, rk, position(cs, TRUE).val)
         IN  [cells |-> built.cells, rocket |-> built.rocket,
              log |-> IF built.ok THEN "rocket_built" ELSE "rocket_build_failed"]

\* the charging logic that charges but never builds
AI_handle_sunray_nobuild(cs, rk) ==
    LET index == position(cs, FALSE) IN
    IF index.some
    THEN [cells |-> charge(cs, index.val), rocket |-> rk, log |-> "none"]
    ELSE [cells |-> cs, rocket |-> rk, log |-> "no_uncharged_cells"]

\* the charging logic that takes the charge back when the build fails
AI_handle_sunray_rollback(cs, rk) ==
    LET index == position(cs, FALSE) IN
    IF index.some
    THEN LET charged == charge(cs, index.val)
             built == build_rocket(charged, rk, index.val)
         IN  IF built.ok
             THEN [cells |-> built.cells, rocket |-> built.rocket,
                   log |-> "rocket_built"]
             ELSE [cells |-> cs, rocket |-> rk, log |-> "rocket_build_failed"]
    ELSE [cells |-> cs, rocket |-> rk, log |-> "no_uncharged_cells"]

\* the charging logic charging every uncharged cell with the one sunray
AI_handle_sunray_all(cs, rk) ==
    LET index == position(cs, FALSE) IN
    IF index.some
    THEN LET charged == [i \in Index |-> TRUE]
             built == build_rocket(charged, rk, index.val)
         IN  [cells |-> built.cells, rocket |-> built.rocket,
              log |-> IF built.ok THEN "rocket_built" ELSE "rocket_build_failed"]
    ELSE [cells |-> cs, rocket |-> rk, log |-> "no_uncharged_cells"]

\* AI::handle_sunray(state, s), the charging logic
AI_handle_sunray(cs, rk) ==
    LET index == position(cs, FALSE) IN
    IF index.some
    THEN LET charged == charge(cs, index.val)
             built == build_rocket(charged, rk, index.val)
         IN  [cells |-> built.cells, rocket |-> built.rocket,
              log |-> IF built.ok THEN "rocket_built" ELSE "rocket_build_failed"]
    ELSE [cells |-> cs, rocket |-> rk, log |-> "no_uncharged_cells"]

\* on_start flipping the flag
on_start_toggle(run, cs, rk) == Logged(Result(~run, cs, rk, Unit), "ai_started")

\* PlanetAI::on_start
on_start(run, cs, rk) == Logged(Result(TRUE, cs, rk, Unit), "ai_started")

\* on_stop flipping the flag
on_stop_toggle(run, cs, rk) == Logged(Result(~run, cs, rk, Unit), "ai_stopped")

\* PlanetAI::on_stop
on_stop(run, cs, rk) == Logged(Result(FALSE, cs, rk, Unit), "ai_stopped")

\* handle_sunray without the is_running gate
handle_sunray_ungated(run, cs, rk) ==
    LET s == AI_handle_sunray(cs, rk)
    IN  Logged(Result(run, s.cells, s.rocket, Unit), s.log)

\* PlanetAI::handle_sunray
handle_sunray(run, cs, rk) ==
    IF is_running(run)
    THEN LET s == AI_handle_sunray(cs, rk)
         IN  Logged(Result(run, s.cells, s.rocket, Unit), s.log)
    ELSE Logged(Result(run, cs, rk, Unit), "msg_ignored")

\* PlanetAI::handle_internal_state_req
handle_internal_state_req(run, cs, rk) == Result(run, cs, rk, to_dummy(cs, rk))

\* usize -> u32 by try_into().unwrap_or_default()
try_into(tmp, max) == IF tmp <= max THEN tmp ELSE 0
try_into_u32(tmp) == try_into(tmp, FieldMax)

\* handle_explorer_msg generating oxygen whatever resource is asked for
handle_explorer_msg_any(run, cs, rk, msg) ==
    IF ~is_running(run) THEN Logged(Result(run, cs, rk, None), "msg_ignored")
    ELSE CASE msg.kind = "SupportedResourceRequest" ->
                Result(run, cs, rk,
                       Some([kind |-> "SupportedResourceResponse",
                             resource_list |-> gen_rules]))
           [] msg.kind = "GenerateResourceRequest" ->
                LET index == position(cs, TRUE) IN
                IF index.some
                THEN LET made == make_oxygen(cs, index.val) IN
                     IF made.ok
                     THEN Logged(Result(run, made.cells, rk,
                                        Some([kind |-> "GenerateResourceResponse",
                                              resource |-> Some([type |-> "Oxygen"])])),
                                 "generate_oxygen: success")
                     ELSE Logged(Result(run, made.cells, rk, None),
                                 "generate_oxygen: failed")
                ELSE Logged(Result(run, cs, rk, None), "generate_oxygen: failed")
           [] msg.kind = "SupportedCombinationRequest" ->
                Result(run, cs, rk,
                       Some([kind |-> "SupportedCombinationResponse",
                             combination_list |-> comb_rules]))
           [] msg.kind = "CombineResourceRequest" ->
                LET lr == get_generic_resources(msg.msg) IN
                Result(run, cs, rk,
                       Some([kind |-> "CombineResourceResponse",
                             complex_response |->
                                 [ok |-> FALSE, reason |-> "unsupported_combination",
                                  left |-> lr[1], right |-> lr[2]]]))
           [] msg.kind = "AvailableEnergyCellRequest" ->
                LET tmp == charged_count(cs)
                    count == try_into_u32(tmp)
                IN  Result(run, cs, rk,
                           Some([kind |-> "AvailableEnergyCellResponse",
                                 available_cells |-> count]))

\* PlanetAI::handle_explorer_msg
handle_explorer_msg(run, cs, rk, msg) ==
    IF ~is_running(run) THEN Logged(Result(run, cs, rk, None), "msg_ignored")
    ELSE CASE msg.kind = "SupportedResourceRequest" ->
                Result(run, cs, rk,
                       Some([kind |-> "SupportedResourceResponse",
                             resource_list |-> gen_rules]))
           [] msg.kind = "GenerateResourceRequest" /\ msg.resource = "Oxygen" ->
                LET index == position(cs, TRUE) IN
                IF index.some
                THEN LET made == make_oxygen(cs, index.val) IN
                     IF made.ok
                     THEN Logged(Result(run, made.cells, rk,
                                        Some([kind |-> "GenerateResourceResponse",
                                              resource |-> Some([type |-> "Oxygen"])])),
                                 "generate_oxygen: success")
                     ELSE Logged(Result(run, made.cells, rk, None),
                                 "generate_oxygen: failed")
                ELSE Logged(Result(run, cs, rk, None), "generate_oxygen: failed")
           [] msg.kind = "GenerateResourceRequest" /\ msg.resource # "Oxygen" ->
                Logged(Result(run, cs, rk, None), "generate_resource: unsupported")
           [] msg.kind = "SupportedCombinationRequest" ->
                Result(run, cs, rk,
                       Some([kind |-> "SupportedCombinationResponse",
                             combination_list |-> comb_rules]))
           [] msg.kind = "CombineResourceRequest" ->
                LET lr == get_generic_resources(msg.msg) IN
                Result(run, cs, rk,
                       Some([kind |-> "CombineResourceResponse",
                             complex_response |->
                                 [ok |-> FALSE, reason |-> "unsupported_combination",
                                  left |-> lr[1], right |-> lr[2]]]))
           [] msg.kind = "AvailableEnergyCellRequest" ->
                LET tmp == charged_count(cs)
                    count == try_into_u32(tmp)
                IN  Result(run, cs, rk,
                           Some([kind |-> "AvailableEnergyCellResponse",
                                 available_cells |-> count]))

\* launching the held rocket and discharging the first charged cell as well
launch_existing_drain(run, cs, rk) ==
    LET t == take_rocket(rk)
        index == position(cs, TRUE)
    IN  Logged(Result(run,
                      IF index.some THEN [cs EXCEPT ![index.val] = FALSE] ELSE cs,
                      t.rocket, t.ret),
               "existing_rocket_launched")

\* PlanetAI::handle_asteroid, a rocket is already held: it is launched
launch_existing(run, cs, rk) ==
    LET t == take_rocket(rk)
    IN  Logged(Result(run, cs, t.rocket, t.ret), "existing_rocket_launched")

\* a threat answered with a rocket that no cell paid for
build_and_launch_free(run, cs, rk) ==
    LET index == position(cs, TRUE) IN
    IF index.some
    THEN LET built == build_rocket(cs, rk, index.val) IN
         IF built.ok
         THEN LET t == take_rocket(built.rocket) IN
              Logged(Result(run, built.cells, t.rocket, t.ret),
                     "rocket_built_and_launched")
         ELSE Logged(Result(run, built.cells, built.rocket, None),
                     "rocket_build_failed")
    ELSE Logged(Result(run, cs, rk, Some([built_from |-> 1])),
                "no_charged_cells_available")

\* building the rocket on a threat but leaving it in the slot
build_and_launch_keep(run, cs, rk) ==
    LET index == position(cs, TRUE) IN
    IF index.some
    THEN LET built == build_rocket(cs, rk, index.val) IN
         IF built.ok
         THEN Logged(Result(run, built.cells, built.rocket, None),
                     "rocket_built_and_launched")
         ELSE Logged(Result(run, built.cells, built.rocket, None),
                     "rocket_build_failed")
    ELSE Logged(Result(run, cs, rk, None), "no_charged_cells_available")

\* PlanetAI::handle_asteroid, no rocket is held: build one on the first
\* charged cell and launch it
build_and_launch(run, cs, rk) ==
    LET index == position(cs, TRUE) IN
    IF index.some
    THEN LET built == build_rocket(cs, rk, index.val) IN
         IF built.ok
         THEN LET t == take_rocket(built.rocket) IN
              Logged(Result(run, built.cells, t.rocket, t.ret),
                     "rocket_built_and_launched")
         ELSE Logged(Result(run, built.cells, built.rocket, None),
                     "rocket_build_failed")
    ELSE Logged(Result(run, cs, rk, None), "no_charged_cells_available")

\* handle_asteroid without the is_running gate
handle_asteroid_ungated(run, cs, rk) ==
    IF has_rocket(rk) THEN launch_existing(run, cs, rk)
    ELSE build_and_launch(run, cs, rk)

\* handle_asteroid that always builds, never launching the rocket it holds
handle_asteroid_build_first(run, cs, rk) ==
    IF ~is_running(run) THEN Logged(Result(run, cs, rk, None), "msg_ignored")
    ELSE build_and_launch(run, cs, rk)

\* handle_asteroid that stops the AI once a threat went unanswered
handle_asteroid_dies(run, cs, rk) ==
    IF ~is_running(run) THEN Logged(Result(run, cs, rk, None), "msg_ignored")
    ELSE IF has_rocket(rk) THEN launch_existing(run, cs, rk)
    ELSE LET r == build_and_launch(run, cs, rk) IN
         IF r.ret.some THEN r ELSE [r EXCEPT !.running = FALSE]

\* PlanetAI::handle_asteroid
handle_asteroid(run, cs, rk) ==
    IF ~is_running(run) THEN Logged(Result(run, cs, rk, None), "msg_ignored")
    ELSE IF has_rocket(rk) THEN launch_existing(run, cs, rk)
    ELSE build_and_launch(run, cs, rk)

-----------------------------------------------------------------------------
(* The planet loop's replies to the orchestrator *)

\* a reply that always names planet 0
SunrayReply_zero(planet_id, run) ==
    IF run THEN Some([kind |-> "SunrayAck", planet_id |-> 0]) ELSE None

\* the reply to a Sunray: an acknowledgment carrying the planet's identity
\* once the AI's handler has returned; nothing while the AI is stopped
SunrayReply(planet_id, run) ==
    IF run THEN Some([kind |-> "SunrayAck", planet_id |-> planet_id]) ELSE None

-----------------------------------------------------------------------------
(* Trip::new and its two inbound channels *)

\* the messages senders put on the channels before the planet is built
OrchestratorToPlanet == {"StartPlanetAI", "StopPlanetAI", "Sunray"}
QueuedExplorerToPlanet ==
    {m \in ExplorerToPlanet :
        m.kind \in {"SupportedResourceRequest", "AvailableEnergyCellRequest"}}

Channels(oq, otx, eq, etx) ==
    [orch_q |-> oq, orch_tx |-> otx, expl_q |-> eq, expl_tx |-> etx]

NotCalled == [res |-> "NotCalled"]
Ok == [res |-> "Ok"]
Err(text) == [res |-> "Err", text |-> text]

\* mpsc::Receiver::try_recv: a queued message is received even after the
\* senders are gone; Disconnected only once the queue is empty
try_recv(q, tx) ==
    IF q # <<>> THEN [res |-> "Ok", q |-> Tail(q)]
    ELSE IF ~tx THEN [res |-> "Disconnected", q |-> q]
    ELSE [res |-> "Empty", q |-> q]

\* Trip::new: the result and what is left on the two channels
Trip_new(oq, otx, eq, etx) ==
    LET o == try_recv(oq, otx) IN
    IF o.res = "Disconnected"
    THEN [result |-> Err("OrchestratorToPlanet Channel is closed"),
          orch_q |-> o.q, expl_q |-> eq]
    ELSE LET e == try_recv(eq, etx) IN
         IF e.res = "Disconnected"
         THEN [result |-> Err("ExplorerToPlanet channel is closed"),
               orch_q |-> o.q, expl_q |-> e.q]
         ELSE [result |-> Ok, orch_q |-> o.q, expl_q |-> e.q]

-----------------------------------------------------------------------------
(* The state machine *)

Snapshot == [running |-> running, cells |-> cells, rocket |-> rocket]

\* hist after an event of the given kind
NextHist(h, kind) ==
    CASE kind = "start" /\ h.path \in {"new", "started"} /\ h.pulses = 0 ->
            [path |-> "started", pulses |-> 0]
      [] kind = "sunray" /\ h.path = "started" /\ h.pulses < MaxPulses ->
            [path |-> "started", pulses |-> h.pulses + 1]
      [] kind = "asteroid" /\ h.path = "started" ->
            [path |-> "threat", pulses |-> h.pulses]
      [] OTHER -> [path |-> "other", pulses |-> 0]

\* the state Trip::new builds: AI::new() and a PlanetType::A planet, all
\* cells empty, no rocket
Init ==
    /\ id \in 0..MaxPlanetId
    /\ running = AI_new
    /\ cells = [i \in Index |-> FALSE]
    /\ rocket = None
    /\ ev = [kind |-> "new"]
    /\ ret = Unit
    /\ out = None
    /\ log = "none"
    /\ pre = [running |-> AI_new, cells |-> [i \in Index |-> FALSE], rocket |-> None]
    /\ hist = [path |-> "new", pulses |-> 0]
    /\ orch_q = <<>>
    /\ orch_tx = TRUE
    /\ expl_q = <<>>
    /\ expl_tx = TRUE
    /\ trip = [res |-> "Ok"]
    /\ chan_pre = Channels(<<>>, TRUE, <<>>, TRUE)
    /\ sent = <<>>
    /\ applied = <<>>
    /\ conv_in = 0
    /\ conv_out = None
    /\ tally = [pulses |-> 0, built |-> 0, oxygen |-> 0, launched |-> 0]

ApplyPlanet(e, r, o) ==
    /\ running' = r.running
    /\ cells' = r.cells
    /\ rocket' = r.rocket
    /\ ret' = r.ret
    /\ out' = o
    /\ log' = r.log
    /\ ev' = e
    /\ pre' = Snapshot
    /\ hist' = NextHist(hist, e.kind)
    /\ UNCHANGED id

Apply(e, r, o) ==
    /\ ApplyPlanet(e, r, o)
    /\ UNCHANGED chanvars
    /\ UNCHANGED auxvars

Start == Apply([kind |-> "start"], on_start(running, cells, rocket), None)

Stop == Apply([kind |-> "stop"], on_stop(running, cells, rocket), None)

Sunray ==
    Apply([kind |-> "sunray"], handle_sunray(running, cells, rocket),
          SunrayReply(id, running))

InternalStateReq ==
    Apply([kind |-> "internal_state_req"],
          handle_internal_state_req(running, cells, rocket), None)

ExplorerMsg ==
    \E msg \in ExplorerToPlanet :
        Apply([kind |-> "explorer_msg", msg |-> msg],
              handle_explorer_msg(running, cells, rocket, msg), None)

Asteroid == Apply([kind |-> "asteroid"], handle_asteroid(running, cells, rocket), None)

Next ==
    \/ Start
    \/ Stop
    \/ Sunray
    \/ InternalStateReq
    \/ ExplorerMsg
    \/ Asteroid

Spec == Init /\ [][Next]_vars

-----------------------------------------------------------------------------
(* Building the planet: senders fill or drop the two inbound channels, then  *)
(* Trip::new is called once.                                                 *)

InitNew ==
    /\ id \in 0..MaxPlanetId
    /\ running = AI_new
    /\ cells = [i \in Index |-> FALSE]
    /\ rocket = None
    /\ ev = [kind |-> "new"]
    /\ ret = Unit
    /\ out = None
    /\ log = "none"
    /\ pre = [running |-> AI_new, cells |-> [i \in Index |-> FALSE], rocket |-> None]
    /\ hist = [path |-> "new", pulses |-> 0]
    /\ orch_q = <<>>
    /\ orch_tx = TRUE
    /\ expl_q = <<>>
    /\ expl_tx = TRUE
    /\ trip = NotCalled
    /\ chan_pre = Channels(<<>>, TRUE, <<>>, TRUE)
    /\ sent = <<>>
    /\ applied = <<>>
    /\ conv_in = 0
    /\ conv_out = None
    /\ tally = [pulses |-> 0, built |-> 0, oxygen |-> 0, launched |-> 0]

OrchSend ==
    /\ trip = NotCalled /\ orch_tx /\ Len(orch_q) < MaxQueue
    /\ \E m \in OrchestratorToPlanet : orch_q' = Append(orch_q, m)
    /\ UNCHANGED <<planetvars, auxvars, orch_tx, expl_q, expl_tx, trip, chan_pre>>

ExplSend ==
    /\ trip = NotCalled /\ expl_tx /\ Len(expl_q) < MaxQueue
    /\ \E m \in QueuedExplorerToPlanet : expl_q' = Append(expl_q, m)
    /\ UNCHANGED <<planetvars, auxvars, orch_q, orch_tx, expl_tx, trip, chan_pre>>

OrchDrop ==
    /\ trip = NotCalled /\ orch_tx
    /\ orch_tx' = FALSE
    /\ UNCHANGED <<planetvars, auxvars, orch_q, expl_q, expl_tx, trip, chan_pre>>

ExplDrop ==
    /\ trip = NotCalled /\ expl_tx
    /\ expl_tx' = FALSE
    /\ UNCHANGED <<planetvars, auxvars, orch_q, orch_tx, expl_q, trip, chan_pre>>

TripNew ==
    /\ trip = NotCalled
    /\ LET r == Trip_new(orch_q, orch_tx, expl_q, expl_tx) IN
        /\ trip' = r.result
        /\ orch_q' = r.orch_q
        /\ expl_q' = r.expl_q
    /\ chan_pre' = Channels(orch_q, orch_tx, expl_q, expl_tx)
    /\ UNCHANGED <<planetvars, auxvars, orch_tx, expl_tx>>

NextNew ==
    \/ OrchSend
    \/ ExplSend
    \/ OrchDrop
    \/ ExplDrop
    \/ TripNew

SpecNew == InitNew /\ [][NextNew]_vars

-----------------------------------------------------------------------------
(* Two sender threads on clones of the orchestrator sender, one sending     *)
(* StartPlanetAI and one StopPlanetAI, while the planet runs                *)
(* (test_concurrent_message_sending).                                       *)

Senders == {"t1", "t2"}
SignalOf(t) == IF t = "t1" THEN "StartPlanetAI" ELSE "StopPlanetAI"
SentBy(t) == Cardinality({k \in 1..Len(sent) : sent[k] = SignalOf(t)})

\* tx.send(..) of a sender thread: the channel takes the message at its tail
Send ==
    \E t \in Senders :
        /\ SentBy(t) < MaxSignals
        /\ orch_q' = Append(orch_q, SignalOf(t))
        /\ sent' = Append(sent, SignalOf(t))
        /\ UNCHANGED <<planetvars, orch_tx, expl_q, expl_tx, trip, chan_pre,
                       applied, conv_in, conv_out, tally>>

\* the planet's loop receives the message at the head of the channel and
\* calls the handler of its kind
Deliver(m, e, r) ==
    /\ orch_q # <<>> /\ Head(orch_q) = m
    /\ orch_q' = Tail(orch_q)
    /\ applied' = Append(applied, m)
    /\ ApplyPlanet(e, r, None)
    /\ UNCHANGED <<orch_tx, expl_q, expl_tx, trip, chan_pre, sent, conv_in, conv_out,
                   tally>>

DeliverStart ==
    Deliver("StartPlanetAI", [kind |-> "start"], on_start(running, cells, rocket))

DeliverStop ==
    Deliver("StopPlanetAI", [kind |-> "stop"], on_stop(running, cells, rocket))

NextConc ==
    \/ Send
    \/ DeliverStart
    \/ DeliverStop

SpecConc == Init /\ [][NextConc]_vars

-----------------------------------------------------------------------------
(* The conversion of the number of charged cells to the response field, on  *)
(* its own.                                                                 *)

InitConv ==
    /\ id \in 0..MaxPlanetId
    /\ running = AI_new
    /\ cells = [i \in Index |-> FALSE]
    /\ rocket = None
    /\ ev = [kind |-> "new"]
    /\ ret = Unit
    /\ out = None
    /\ log = "none"
    /\ pre = [running |-> AI_new, cells |-> [i \in Index |-> FALSE], rocket |-> None]
    /\ hist = [path |-> "new", pulses |-> 0]
    /\ orch_q = <<>>
    /\ orch_tx = TRUE
    /\ expl_q = <<>>
    /\ expl_tx = TRUE
    /\ trip = [res |-> "Ok"]
    /\ chan_pre = Channels(<<>>, TRUE, <<>>, TRUE)
    /\ sent = <<>>
    /\ applied = <<>>
    /\ conv_in \in 0..MaxCount
    /\ conv_out = None
    /\ tally = [pulses |-> 0, built |-> 0, oxygen |-> 0, launched |-> 0]

Convert ==
    /\ conv_out = None
    /\ conv_out' = Some(try_into(conv_in, NarrowMax))
    /\ UNCHANGED <<planetvars, chanvars, sent, applied, conv_in, tally>>

NextConv == Convert

SpecConv == InitConv /\ [][NextConv]_vars

-----------------------------------------------------------------------------
(* The planet's events with the handlers' outcomes tallied: which branch a  *)
(* handler took is read off the outcome it logged.                          *)

Counted(t) == t.pulses + t.built + t.oxygen + t.launched

\* the tally after a handler returned r for the event e
NextTally(t, e, r) ==
    CASE e.kind = "sunray" /\ r.log = "rocket_built" ->
            [t EXCEPT !.pulses = @ + 1, !.built = @ + 1]
      [] e.kind = "sunray" /\ r.log = "rocket_build_failed" ->
            [t EXCEPT !.pulses = @ + 1]
      [] e.kind = "explorer_msg" /\ r.log = "generate_oxygen: success" ->
            [t EXCEPT !.oxygen = @ + 1]
      [] e.kind = "asteroid" /\ r.log = "existing_rocket_launched" ->
            [t EXCEPT !.launched = @ + 1]
      [] e.kind = "asteroid" /\ r.log = "rocket_built_and_launched" ->
            [t EXCEPT !.built = @ + 1, !.launched = @ + 1]
      [] OTHER -> t

Tallied(e, r, o) ==
    /\ Counted(tally) < MaxTally
    /\ ApplyPlanet(e, r, o)
    /\ tally' = NextTally(tally, e, r)
    /\ UNCHANGED chanvars
    /\ UNCHANGED <<sent, applied, conv_in, conv_out>>

TalliedStart == Tallied([kind |-> "start"], on_start(running, cells, rocket), None)

TalliedStop == Tallied([kind |-> "stop"], on_stop(running, cells, rocket), None)

TalliedSunray ==
    Tallied([kind |-> "sunray"], handle_sunray(running, cells, rocket),
            SunrayReply(id, running))

TalliedInternalStateReq ==
    Tallied([kind |-> "internal_state_req"],
            handle_internal_state_req(running, cells, rocket), None)

TalliedExplorerMsg ==
    \E msg \in ExplorerToPlanet :
        Tallied([kind |-> "explorer_msg", msg |-> msg],
                handle_explorer_msg(running, cells, rocket, msg), None)

TalliedAsteroid ==
    Tallied([kind |-> "asteroid"], handle_asteroid(running, cells, rocket), None)

NextEnergy ==
    \/ TalliedStart
    \/ TalliedStop
    \/ TalliedSunray
    \/ TalliedInternalStateReq
    \/ TalliedExplorerMsg
    \/ TalliedAsteroid

SpecEnergy == Init /\ [][NextEnergy]_vars

-----------------------------------------------------------------------------
TypeOK ==
    /\ id \in 0..MaxPlanetId
    /\ running \in BOOLEAN
    /\ cells \in [Index -> BOOLEAN]
    /\ rocket \in {None} \cup {Some([built_from |-> i]) : i \in Index}

-----------------------------------------------------------------------------
(* Properties.  `pre` is the state before the last event `ev`, so each      *)
(* property reads the handler's effect off one reachable state.             *)

PreCharged == {i \in Index : is_charged(pre.cells[i])}
PreEmpty == {i \in Index : ~is_charged(pre.cells[i])}
StateUnchanged == cells = pre.cells /\ rocket = pre.rocket
Handled(kind) == ev.kind = kind
Min(S) == CHOOSE i \in S : \A j \in S : i <= j

\* C1: an explorer query of any kind, or a threat event, handled while the
\* lifecycle flag is inactive returns None and leaves every cell of the
\* reserve and the rocket slot as they were.
C1_InactiveQueryOrThreatIsNoOp ==
    ((Handled("explorer_msg") \/ Handled("asteroid")) /\ ~pre.running)
        => (ret = None /\ StateUnchanged)

\* a threat handled while inactive although a rocket is held and cells are charged
C1_Witness ==
    /\ Handled("asteroid") /\ ~pre.running
    /\ pre.rocket.some /\ PreCharged # {}

\* C2: while stopped every handler of the AI (handle_sunray,
\* handle_explorer_msg, handle_asteroid, handle_internal_state_req) yields no
\* response value.
C2_StoppedHandlersYieldNothing ==
    (~pre.running /\ ev.kind \in {"sunray", "explorer_msg", "asteroid",
                                   "internal_state_req"})
        => ret \in {None, Unit}

\* C3: a sunray handled while the lifecycle flag is inactive charges no
\* cell, attempts no construction and leaves the rocket slot unchanged.
C3_InactiveSunrayMutatesNothing ==
    (Handled("sunray") /\ ~pre.running) => StateUnchanged

\* a sunray handled while inactive with an empty cell and no rocket, where
\* the charging logic would have built a rocket
C3_Witness ==
    /\ Handled("sunray") /\ ~pre.running
    /\ ~pre.rocket.some /\ PreEmpty # {} /\ PreCharged # {}

\* C4: the flag starts inactive; start sets it active and stop sets it
\* inactive whatever it was before (so each is idempotent), and neither
\* changes a cell of the reserve or the rocket slot.
C4_StartStopOnlySetFlag ==
    /\ Handled("new") => ~running
    /\ Handled("start") => (running /\ StateUnchanged)
    /\ Handled("stop") => (~running /\ StateUnchanged)

\* a start repeated on an already active AI holding a rocket and charged cells
C4_Witness ==
    /\ Handled("start") /\ pre.running
    /\ rocket.some /\ PreCharged # {}

\* C5: no sunray, threat, explorer query or internal-state request, in any
\* state, changes the lifecycle flag.
C5_DataEventsKeepFlag ==
    ev.kind \in {"sunray", "asteroid", "explorer_msg", "internal_state_req"}
        => running = pre.running

\* a threat handled while active that went unanswered
C5_Witness ==
    Handled("asteroid") /\ pre.running /\ ret = None

\* C6: every sunray handled while active is answered by one acknowledgment
\* carrying the planet's own identity, whether or not an empty cell was
\* found and whether or not a rocket was built.
C6_ActiveSunrayAcked ==
    (Handled("sunray") /\ pre.running)
        => out = Some([kind |-> "SunrayAck", planet_id |-> id])

\* a sunray acknowledged by a planet whose identity is not 0, with the
\* reserve saturated and a rocket held, so nothing was charged or built
C6_Witness ==
    /\ Handled("sunray") /\ pre.running /\ id # 0
    /\ PreEmpty = {} /\ pre.rocket.some /\ out.some

\* C7: a sunray handled while active with at least one empty cell selects
\* the lowest-index empty cell: no other cell changes, and that cell either
\* stays charged (a rocket was held) or is the one built into the rocket.
C7_FirstEmptyCellCharged ==
    (Handled("sunray") /\ pre.running /\ PreEmpty # {}) =>
        LET i == Min(PreEmpty) IN
        /\ \A j \in Index \ {i} : cells[j] = pre.cells[j]
        /\ pre.rocket.some => (is_charged(cells[i]) /\ rocket = pre.rocket)
        /\ ~pre.rocket.some => (~is_charged(cells[i])
                                /\ rocket = Some([built_from |-> i]))

\* a sunray charging a cell in the middle of the reserve: a charged cell
\* below it, an empty cell above it
C7_Witness ==
    /\ Handled("sunray") /\ pre.running /\ PreEmpty # {}
    /\ \E i \in PreCharged : i < Min(PreEmpty)
    /\ \E j \in PreEmpty : j > Min(PreEmpty)
    /\ is_charged(cells[Min(PreEmpty)])

\* C8: with every cell charged, a sunray handled while active is still
\* acknowledged but changes no cell, attempts no construction and leaves
\* the rocket slot unchanged.
C8_SaturatedSunrayChangesNothing ==
    (Handled("sunray") /\ pre.running /\ PreEmpty = {})
        => (out.some /\ StateUnchanged)

\* a sunray on a saturated reserve while no rocket is held
C8_Witness ==
    Handled("sunray") /\ pre.running /\ PreEmpty = {} /\ ~pre.rocket.some

\* C9: a threat handled while active when a rocket is held is answered with
\* that rocket, empties the rocket slot and changes no cell of the reserve,
\* even when charged cells are available.
C9_ExistingRocketLaunchedFirst ==
    (Handled("asteroid") /\ pre.running /\ pre.rocket.some)
        => (ret = pre.rocket /\ rocket = None /\ cells = pre.cells)

\* a held rocket launched while charged cells were available
C9_Witness ==
    /\ Handled("asteroid") /\ pre.running /\ pre.rocket.some
    /\ PreCharged # {} /\ ret.some

\* C10: a threat handled while active with no rocket held and no cell
\* charged is answered with no rocket and changes neither the reserve nor
\* the rocket slot.
C10_NothingToLaunch ==
    (Handled("asteroid") /\ pre.running /\ ~pre.rocket.some /\ PreCharged = {})
        => (ret = None /\ StateUnchanged)

\* the threat on the fresh all-empty planet after activation
C10_Witness ==
    /\ Handled("asteroid") /\ pre.running
    /\ ~pre.rocket.some /\ PreCharged = {} /\ Cardinality(PreEmpty) = N

\* the number of charged cells of a reserve, counted cell by cell
Charged(cs) == Cardinality({i \in Index : cs[i] = TRUE})

\* C11: on the fresh all-empty planet, activated, one sunray followed by one
\* threat yields a rocket as the threat's response and leaves 0 charged
\* cells and no rocket held.
C11_PulseThenThreatLaunches ==
    (hist.path = "threat" /\ hist.pulses = 1)
        => (ret.some /\ Charged(cells) = 0 /\ ~rocket.some)

\* the threat right after the first sunray was handled
C11_Witness ==
    /\ hist.path = "threat" /\ hist.pulses = 1
    /\ Handled("asteroid") /\ pre.running /\ pre.rocket.some

\* C12 as stated: after activation and sunrays until exactly one cell is
\* charged, a threat returns a rocket and leaves one charged cell fewer than
\* before the threat.
C12_ThreatConsumesTheCharge ==
    (hist.path = "threat" /\ Charged(pre.cells) = 1)
        => (ret.some /\ Charged(cells) = Charged(pre.cells) - 1)

\* C12 amended: after activation and sunrays until exactly one cell is
\* charged, a threat returns a rocket (the one the first sunray built) and
\* leaves the number of charged cells as it was before the threat.
C12_ThreatKeepsTheCharge ==
    (hist.path = "threat" /\ Charged(pre.cells) = 1)
        => (ret.some /\ Charged(cells) = Charged(pre.cells))

\* the threat after the two sunrays it takes to have one cell charged
C12_Witness ==
    /\ hist.path = "threat" /\ Charged(pre.cells) = 1
    /\ hist.pulses = 2 /\ Handled("asteroid")

\* C13: a sunray handled while active with no rocket held and an empty cell
\* charges the lowest-index empty cell and at once consumes it into a
\* rocket: a rocket is held afterwards and the reserve is as before.
C13_ChargeThenBuild ==
    (Handled("sunray") /\ pre.running /\ ~pre.rocket.some /\ PreEmpty # {})
        => /\ rocket = Some([built_from |-> Min(PreEmpty)])
           /\ log = "rocket_built"
           /\ cells = pre.cells
           /\ Charged(cells) = Charged(pre.cells)

\* such a sunray on a reserve that already holds charged cells
C13_Witness ==
    /\ Handled("sunray") /\ pre.running /\ ~pre.rocket.some
    /\ PreEmpty # {} /\ PreCharged # {} /\ rocket.some

\* C14: on the fresh activated planet, after k >= 1 sunrays and nothing
\* else a rocket is held and min(k - 1, N) cells are charged.
C14_PulsesFillReserve ==
    (hist.path = "started" /\ hist.pulses >= 1)
        => /\ rocket.some
           /\ Charged(cells) = IF hist.pulses - 1 < N THEN hist.pulses - 1 ELSE N

\* the state after the 20 sunrays of test_planet_multiple_sunray_ack
C14_Witness ==
    /\ hist.path = "started" /\ hist.pulses = 20
    /\ Charged(cells) = N /\ rocket.some

\* C15: an available-energy-cell request handled while active responds with
\* the exact number of charged cells and changes neither the reserve nor the
\* rocket slot.
C15_AvailableCellsCounted ==
    (Handled("explorer_msg") /\ ev.msg.kind = "AvailableEnergyCellRequest"
        /\ pre.running)
        => /\ ret = Some([kind |-> "AvailableEnergyCellResponse",
                          available_cells |-> Charged(pre.cells)])
           /\ StateUnchanged

\* the request answered with 3 on a reserve with 3 of its 5 cells charged
C15_Witness ==
    /\ Handled("explorer_msg") /\ ev.msg.kind = "AvailableEnergyCellRequest"
    /\ pre.running /\ Charged(pre.cells) = 3 /\ ret.some
    /\ ret.val.available_cells = 3

\* the two operands a combine request of each kind is made of
OperandsOf ==
    [Water     |-> <<"BasicResources", "Hydrogen", "BasicResources", "Oxygen">>,
     Diamond   |-> <<"BasicResources", "Carbon", "BasicResources", "Carbon">>,
     Life      |-> <<"ComplexResources", "Water", "BasicResources", "Carbon">>,
     Robot     |-> <<"BasicResources", "Silicon", "ComplexResources", "Life">>,
     Dolphin   |-> <<"ComplexResources", "Water", "ComplexResources", "Life">>,
     AIPartner |-> <<"ComplexResources", "Robot", "ComplexResources", "Diamond">>]

\* r is the rejection of the combine request req, carrying its two operands
RejectionOf(r, req) ==
    /\ r.some
    /\ r.val.kind = "CombineResourceResponse"
    /\ ~r.val.complex_response.ok
    /\ r.val.complex_response.left =
           [class |-> OperandsOf[req.kind][1], type |-> OperandsOf[req.kind][2],
            val |-> req.a]
    /\ r.val.complex_response.right =
           [class |-> OperandsOf[req.kind][3], type |-> OperandsOf[req.kind][4],
            val |-> req.b]

CombineHandled == Handled("explorer_msg") /\ ev.msg.kind = "CombineResourceRequest"

\* C16 as stated: a combine request is answered with the rejection carrying
\* its two decomposed operands in every state of the lifecycle flag, the
\* reserve and the rocket slot.
C16_CombineAlwaysRejected ==
    CombineHandled => RejectionOf(ret, ev.msg.msg)

\* C16 amended: a combine request handled while active is answered with the
\* rejection carrying its two decomposed operands, in every state of the
\* reserve and the rocket slot.
C16_CombineRejectedWhenActive ==
    (CombineHandled /\ pre.running) => RejectionOf(ret, ev.msg.msg)

\* a robot request with two different operands rejected while cells are
\* charged and a rocket is held
C16_Witness ==
    /\ CombineHandled /\ pre.running
    /\ ev.msg.msg.kind = "Robot" /\ ev.msg.msg.a # ev.msg.msg.b
    /\ PreCharged # {} /\ pre.rocket.some /\ ret.some

\* the cells the last event took from charged to empty
Drained == {i \in Index : pre.cells[i] = TRUE /\ cells[i] = FALSE}

\* the last event built a rocket out of cell i
BuiltFrom(i) ==
    \/ Handled("sunray") /\ ~pre.rocket.some /\ rocket = Some([built_from |-> i])
    \/ Handled("asteroid") /\ ~pre.rocket.some /\ ret = Some([built_from |-> i])

\* the last event was an oxygen request answered with a unit of oxygen
OxygenMade ==
    /\ Handled("explorer_msg") /\ ev.msg.kind = "GenerateResourceRequest"
    /\ ev.msg.resource = "Oxygen"
    /\ ret = Some([kind |-> "GenerateResourceResponse",
                   resource |-> Some([type |-> "Oxygen"])])

\* C17 as stated: a cell goes from charged to empty only by being consumed
\* into a rocket; no other operation, no explorer query, empties it.
C17_OnlyRocketsDrain ==
    \A i \in Drained : BuiltFrom(i)

\* C17 amended: a cell goes from charged to empty only by being consumed
\* into a rocket or into the unit of oxygen answering an oxygen
\* generate-resource request.
C17_OnlyRocketsAndOxygenDrain ==
    \A i \in Drained : BuiltFrom(i) \/ OxygenMade

\* an oxygen request that drained the first charged cell of several
C17_Witness ==
    /\ OxygenMade /\ Drained = {Min(PreCharged)} /\ Cardinality(PreCharged) >= 2

\* the last event created a rocket
RocketCreated ==
    \/ log \in {"rocket_built", "rocket_built_and_launched"}
    \/ ~pre.rocket.some /\ rocket.some
    \/ Handled("asteroid") /\ ~pre.rocket.some /\ ret.some

\* C18: at most one rocket is held, and a rocket is only created while none
\* is held and out of exactly one charge: the charge the sunray just put in
\* the first empty cell, or the first charged cell on a threat.
C18_OneRocketOneCharge ==
    /\ rocket \in {None} \cup {Some([built_from |-> i]) : i \in Index}
    /\ RocketCreated =>
        /\ ~pre.rocket.some
        /\ Handled("sunray") \/ Handled("asteroid")
        /\ Handled("sunray") =>
              /\ PreEmpty # {}
              /\ rocket = Some([built_from |-> Min(PreEmpty)])
              /\ cells = pre.cells
        /\ Handled("asteroid") =>
              /\ PreCharged # {}
              /\ Drained = {Min(PreCharged)}
              /\ ret = Some([built_from |-> Min(PreCharged)])
              /\ \A j \in Index \ Drained : cells[j] = pre.cells[j]

\* a rocket built and launched on a threat out of a reserve with several
\* charged cells
C18_Witness ==
    /\ RocketCreated /\ Handled("asteroid")
    /\ log = "rocket_built_and_launched" /\ Cardinality(PreCharged) >= 2

\* C19: Trip::new returns an error naming the failed channel whenever the
\* sender of the orchestrator channel or of the explorer channel was dropped
\* before the call, whatever the channel still holds (the orchestrator
\* channel is checked first); with both senders alive it returns Ok.
C19_NewFailsOnDroppedSender ==
    trip # NotCalled =>
        /\ ~chan_pre.orch_tx
              => trip = Err("OrchestratorToPlanet Channel is closed")
        /\ (chan_pre.orch_tx /\ ~chan_pre.expl_tx)
              => trip = Err("ExplorerToPlanet channel is closed")
        /\ (chan_pre.orch_tx /\ chan_pre.expl_tx) => trip = Ok

\* C20: when a sunray handled while active charges a cell but the build
\* fails because a rocket is already held, the newly charged cell stays
\* charged, the held rocket is unchanged, the number of charged cells rises
\* by exactly one, and the acknowledgment is the one sent on success.
C20_FailedBuildKeepsCharge ==
    (Handled("sunray") /\ pre.running /\ pre.rocket.some /\ PreEmpty # {})
        => /\ log = "rocket_build_failed"
           /\ cells = [pre.cells EXCEPT ![Min(PreEmpty)] = TRUE]
           /\ rocket = pre.rocket
           /\ Charged(cells) = Charged(pre.cells) + 1
           /\ ret = Unit
           /\ out = Some([kind |-> "SunrayAck", planet_id |-> id])

\* a failed build on a reserve whose first empty cell lies between charged
\* cells, the held rocket having come from another cell
C20_Witness ==
    /\ Handled("sunray") /\ pre.running /\ pre.rocket.some /\ PreEmpty # {}
    /\ log = "rocket_build_failed"
    /\ \E i \in PreCharged : i > Min(PreEmpty)
    /\ rocket.val.built_from # Min(PreEmpty)

\* C21: a threat handled while active with no rocket held and a charged
\* cell consumes exactly the lowest-index charged cell, responds with the
\* rocket built from it, and leaves the rocket slot empty and every other
\* cell unchanged.
C21_ThreatBuildsFromFirstCharged ==
    (Handled("asteroid") /\ pre.running /\ ~pre.rocket.some /\ PreCharged # {})
        => /\ ret = Some([built_from |-> Min(PreCharged)])
           /\ rocket = None
           /\ cells = [pre.cells EXCEPT ![Min(PreCharged)] = FALSE]

\* such a threat on a reserve whose first charged cell is not the first cell
\* and is followed by another charged cell
C21_Witness ==
    /\ Handled("asteroid") /\ pre.running /\ ~pre.rocket.some
    /\ Cardinality(PreCharged) >= 2 /\ Min(PreCharged) > 1 /\ ret.some

OxygenAsked ==
    /\ Handled("explorer_msg") /\ ev.msg.kind = "GenerateResourceRequest"
    /\ ev.msg.resource = "Oxygen"

\* C22: an oxygen generate-resource request handled while active consumes
\* the lowest-index charged cell and responds with one unit of oxygen when a
\* cell is charged; with no cell charged it returns None and changes
\* nothing; the rocket slot is unchanged either way.
C22_OxygenFromFirstCharged ==
    (OxygenAsked /\ pre.running) =>
        /\ rocket = pre.rocket
        /\ PreCharged # {} =>
              /\ ret = Some([kind |-> "GenerateResourceResponse",
                             resource |-> Some([type |-> "Oxygen"])])
              /\ cells = [pre.cells EXCEPT ![Min(PreCharged)] = FALSE]
        /\ PreCharged = {} => (ret = None /\ cells = pre.cells)

\* oxygen made out of the first of several charged cells, not the first cell,
\* while a rocket is held
C22_Witness ==
    /\ OxygenAsked /\ pre.running /\ ret.some /\ pre.rocket.some
    /\ Cardinality(PreCharged) >= 2 /\ Min(PreCharged) > 1

\* C23: a generate-resource request for a resource other than oxygen,
\* handled in any state, returns None and changes neither the reserve nor
\* the rocket slot.
C23_OtherResourcesUnsupported ==
    (Handled("explorer_msg") /\ ev.msg.kind = "GenerateResourceRequest"
        /\ ev.msg.resource # "Oxygen")
        => (ret = None /\ StateUnchanged)

\* a hydrogen request refused while active although cells are charged
C23_Witness ==
    /\ Handled("explorer_msg") /\ ev.msg.kind = "GenerateResourceRequest"
    /\ ev.msg.resource = "Hydrogen" /\ pre.running /\ PreCharged # {}

\* C24: a generation-catalog request and a combination-catalog request
\* handled while active are each answered with the response of the matching
\* kind carrying the whole recipe set of the catalog, and change neither the
\* reserve, the rocket slot nor the lifecycle flag.
C24_CatalogRequestsArePureReads ==
    (Handled("explorer_msg") /\ pre.running) =>
        /\ ev.msg.kind = "SupportedResourceRequest" =>
              /\ ret = Some([kind |-> "SupportedResourceResponse",
                             resource_list |-> {"Oxygen"}])
              /\ StateUnchanged /\ running = pre.running
        /\ ev.msg.kind = "SupportedCombinationRequest" =>
              /\ ret = Some([kind |-> "SupportedCombinationResponse",
                             combination_list |-> {}])
              /\ StateUnchanged /\ running = pre.running

\* the generation catalog read while cells are charged and a rocket is held
C24_Witness ==
    /\ Handled("explorer_msg") /\ pre.running
    /\ ev.msg.kind = "SupportedResourceRequest"
    /\ PreCharged # {} /\ pre.rocket.some /\ ret.some

\* C25: a combine request handled while active never combines: it is
\* answered with an error payload of reason "unsupported_combination" whose
\* operands are those of the request's kind, carrying the request's two
\* inputs in order, and the reserve and the rocket slot are unchanged.
C25_CombineNeverPerformed ==
    (CombineHandled /\ pre.running) =>
        /\ RejectionOf(ret, ev.msg.msg)
        /\ ret.val.complex_response.reason = "unsupported_combination"
        /\ DOMAIN ret.val.complex_response = {"ok", "reason", "left", "right"}
        /\ StateUnchanged

\* an AIPartner request with two different inputs, rejected
C25_Witness ==
    /\ CombineHandled /\ pre.running /\ ret.some
    /\ ev.msg.msg.kind = "AIPartner" /\ ev.msg.msg.a # ev.msg.msg.b
    /\ ret.val.complex_response.left.val = ev.msg.msg.a
    /\ ret.val.complex_response.right.val = ev.msg.msg.b

\* the cells the last event took from empty to charged
Gained == {i \in Index : pre.cells[i] = FALSE /\ cells[i] = TRUE}

\* C27: one event changes little: a sunray charges at most one cell and
\* creates at most one rocket; a threat consumes at most one charge and
\* removes at most one rocket; a query consumes at most one charge and
\* leaves the rocket slot alone.
C27_EventsChangeLittle ==
    /\ Handled("sunray") =>
          /\ Cardinality(Gained) <= 1 /\ Drained = {}
          /\ pre.rocket.some => rocket = pre.rocket
    /\ Handled("asteroid") =>
          /\ Cardinality(Drained) <= 1 /\ Gained = {}
          /\ rocket = None \/ rocket = pre.rocket
    /\ Handled("explorer_msg") =>
          /\ Cardinality(Drained) <= 1 /\ Gained = {}
          /\ rocket = pre.rocket

\* a sunray that charged one cell of a reserve with several empty cells
C27_Witness ==
    /\ Handled("sunray") /\ Cardinality(Gained) = 1
    /\ Cardinality(PreEmpty) >= 3

C28_SignalsAppliedInOrder ==
    /\ applied \o orch_q = sent
    /\ applied # <<>> =>
          /\ running = (applied[Len(applied)] = "StartPlanetAI")
          /\ ret = Unit
    /\ cells = [i \in Index |-> FALSE]
    /\ rocket = None

\* both threads have sent all their signals, interleaved, and the planet has
\* handled a stop after a start after a stop while more are still queued
C28_Witness ==
    /\ SentBy("t1") = MaxSignals /\ SentBy("t2") = MaxSignals
    /\ Len(applied) >= 3 /\ orch_q # <<>>
    /\ applied[Len(applied)] = "StopPlanetAI"
    /\ applied[Len(applied) - 1] = "StartPlanetAI"
    /\ applied[Len(applied) - 2] = "StopPlanetAI"

\* C30: Trip::new loses no message: when it returns Ok, every message queued
\* on the orchestrator channel or the explorer channel at the call is still
\* queued there.
C30_NewKeepsQueuedMessages ==
    trip = Ok => (orch_q = chan_pre.orch_q /\ expl_q = chan_pre.expl_q)

\* C32: after a sunray handled while active a rocket is held if and only
\* if a rocket was held before it or a cell was empty before it; with no
\* rocket and every cell charged, a sunray builds no rocket although
\* charged cells are there.
C32_RocketAfterPulse ==
    (Handled("sunray") /\ pre.running) =>
        /\ rocket.some <=> (pre.rocket.some \/ PreEmpty # {})
        /\ (~pre.rocket.some /\ PreEmpty = {}) => (rocket = None /\ cells = pre.cells)

\* a sunray handled while active on a full reserve with no rocket held
C32_Witness ==
    /\ Handled("sunray") /\ pre.running
    /\ ~pre.rocket.some /\ PreEmpty = {} /\ Charged(cells) = N

\* C33: a threat handled while active always leaves the planet without a
\* rocket; it returns no rocket if and only if no rocket was held and no
\* cell was charged before it; the branch of the threat handler for a failed
\* build is never taken.
C33_ThreatAlwaysEmptiesSlot ==
    (Handled("asteroid") /\ pre.running) =>
        /\ rocket = None
        /\ ret = None <=> (~pre.rocket.some /\ PreCharged = {})
        /\ log # "rocket_build_failed"

\* a threat handled while active with a rocket held and charged cells, which
\* launches the rocket and keeps the cells
C33_Witness ==
    /\ Handled("asteroid") /\ pre.running
    /\ pre.rocket.some /\ PreCharged # {} /\ ret = pre.rocket
    /\ cells = pre.cells

\* C31: energy is conserved over every sequence of events: the sunrays
\* that charged a cell are as many as the cells charged now plus the rockets
\* ever built plus the oxygen units ever made, and no more rockets were
\* launched than were built.
C31_EnergyConserved ==
    /\ tally.pulses = Charged(cells) + tally.built + tally.oxygen
    /\ tally.launched <= tally.built

\* a run in which cells were charged, rockets built both by a sunray and by
\* a threat, oxygen made and a rocket launched, with a rocket held and
\* cells still charged
C31_Witness ==
    /\ tally.pulses >= 4 /\ tally.built >= 2 /\ tally.oxygen >= 1
    /\ tally.launched >= 1 /\ tally.launched < tally.built
    /\ Charged(cells) >= 1 /\ rocket.some

====
